---- MODULE Spec2Model ----
(***************************************************************************)
(* Tamil PDF -> Unicode text -> English translation pipeline.              *)
(*                                                                         *)
(* Text is a sequence of one-character strings.  Literal pieces of output  *)
(* that the program formats around a text (the failure markers) are kept   *)
(* as single tokens of such a sequence.                                    *)
(***************************************************************************)
EXTENDS Integers, Sequences, FiniteSets, TLC

(***************************************************************************)
(* Bounds of the model.                                                    *)
(***************************************************************************)
MaxLen == 5
MaxSize == 3
TrMaxLen == 4
LongLen == 101
MaxPages == 2
EnvChunkSize == 2

NL == "\n"
SP == " "
Whitespace == {SP, NL}
Chars == {"a", SP, NL}

\* every text of at most n characters over the alphabet cs
RECURSIVE TextsOver(_, _)
TextsOver(cs, n) ==
    IF n = 0 THEN {<<>>}
    ELSE LET shorter == TextsOver(cs, n - 1)
         IN shorter \cup {Append(t, c) : t \in {s \in shorter : Len(s) = n - 1}, c \in cs}

Texts == TextsOver(Chars, MaxLen)
Sizes == 1..MaxSize

\* the texts handed to translate_text: short ones, and one line longer than
\* the prefix a failure placeholder keeps
LongText == [k \in 1..LongLen |-> "a"]
TrTexts == TextsOver({"a", "b", NL}, TrMaxLen) \cup {LongText, LongText \o <<NL, "b">>}

(***************************************************************************)
(* Python string primitives used by the translators.                       *)
(***************************************************************************)
SetMin(S) == CHOOSE x \in S : \A y \in S : x <= y
SetMax(S) == CHOOSE x \in S : \A y \in S : x >= y

\* str.strip(): leading and trailing whitespace removed
Strip(s) ==
    LET kept == {i \in 1..Len(s) : s[i] \notin Whitespace}
    IN IF kept = {} THEN <<>> ELSE SubSeq(s, SetMin(kept), SetMax(kept))

\* str.split(sep) for a separator made of newlines: the text is cut at every
\* occurrence of sep found scanning left to right without overlap, so in a run
\* of newlines the occurrences start at every Len(sep)-th newline of the run
NewlinesBefore(s, i) ==
    LET other == {j \in 1..(i - 1) : s[j] # NL}
    IN (i - 1) - (IF other = {} THEN 0 ELSE SetMax(other))

SepStarts(s, sep) ==
    {i \in 1..(Len(s) - Len(sep) + 1) :
        /\ SubSeq(s, i, i + Len(sep) - 1) = sep
        /\ NewlinesBefore(s, i) % Len(sep) = 0}

Split(s, sep) ==
    LET starts == SepStarts(s, sep)
        n == Cardinality(starts)
        Nth(j) == CHOOSE m \in starts : Cardinality({x \in starts : x < m}) = j - 1
    IN [j \in 1..(n + 1) |->
           SubSeq(s, IF j = 1 THEN 1 ELSE Nth(j - 1) + Len(sep),
                     IF j = n + 1 THEN Len(s) ELSE Nth(j) - 1)]

\* sep.join(parts)
RECURSIVE Join(_, _)
Join(parts, sep) ==
    IF parts = <<>> THEN <<>>
    ELSE IF Len(parts) = 1 THEN parts[1]
         ELSE parts[1] \o sep \o Join(Tail(parts), sep)

\* s[:n]
Take(s, n) == SubSeq(s, 1, IF Len(s) < n THEN Len(s) ELSE n)

(***************************************************************************)
(* The segmenter, _split_text.  TamilTranslator and the local              *)
(* BaseTranslator cut on "\n"; GeminiTranslator cuts on "\n\n".            *)
(***************************************************************************)
LineSep == <<NL>>
ParaSep == <<NL, NL>>

Boundary(kind) == IF kind = "para" THEN ParaSep ELSE LineSep

\* the test that closes the running chunk; first a variant that forgets the
\* boundary appended to the unit
StartsNewChunkLoose(current_chunk, unit, sep, chunk_size) ==
    Len(current_chunk \o unit) > chunk_size + Len(sep) /\ current_chunk # <<>>

StartsNewChunk(current_chunk, unit, sep, chunk_size) ==
    Len(current_chunk \o unit \o sep) > chunk_size /\ current_chunk # <<>>

\* the for loop over the units, then the trailing "if current_chunk"
RECURSIVE SplitLoop(_, _, _, _, _)
SplitLoop(units, current_chunk, chunks, sep, chunk_size) ==
    IF units = <<>>
    THEN IF current_chunk # <<>> THEN Append(chunks, Strip(current_chunk)) ELSE chunks
    ELSE IF StartsNewChunk(current_chunk, Head(units), sep, chunk_size)
         THEN SplitLoop(Tail(units), Head(units) \o sep,
                        Append(chunks, Strip(current_chunk)), sep, chunk_size)
         ELSE SplitLoop(Tail(units), current_chunk \o Head(units) \o sep,
                        chunks, sep, chunk_size)

_split_text(text, chunk_size, kind) ==
    IF Len(text) <= chunk_size THEN <<text>>
    ELSE SplitLoop(Split(text, Boundary(kind)), <<>>, <<>>, Boundary(kind), chunk_size)

(***************************************************************************)
(* The translation backends.  A request either fails (network, API, model  *)
(* error, empty reply) or returns the translation of what it was sent.     *)
(***************************************************************************)
Backends == {"cloud", "gemini", "huggingface", "argos", "libretranslate"}

\* the services whose translate_text probes is_available() on every call
ProbingBackends == {"argos", "libretranslate"}

\* what the remote service makes of one character
TranslateChar(c) == IF c = "a" THEN "x" ELSE IF c = "b" THEN "y" ELSE c

BackendTranslate(chunk) == [k \in 1..Len(chunk) |-> TranslateChar(chunk[k])]

\* the entry appended for a translated chunk (Gemini strips the reply)
Translated(b, chunk) ==
    IF b = "gemini" THEN Strip(BackendTranslate(chunk)) ELSE BackendTranslate(chunk)

PlaceholderPrefixLen == 100

\* the entry appended for a failed chunk; first a variant that keeps the
\* whole chunk instead of chunk[:100]
PlaceholderWhole(b, i, chunk) ==
    IF b = "gemini"
    THEN <<"[Translation failed for chunk ", ToString(i), ": ">> \o chunk \o <<"...]">>
    ELSE <<"[Translation failed: ">> \o chunk \o <<"...]">>

Placeholder(b, i, chunk) ==
    IF b = "gemini"
    THEN <<"[Translation failed for chunk ", ToString(i), ": ">>
             \o Take(chunk, PlaceholderPrefixLen) \o <<"...]">>
    ELSE <<"[Translation failed: ">> \o Take(chunk, PlaceholderPrefixLen) \o <<"...]">>

\* the string translate_text joins its entries with
ChunkJoiner(b) == IF b = "gemini" THEN ParaSep ELSE LineSep

SplitKind(b) == IF b = "gemini" THEN "para" ELSE "line"

\* rate governing and request events of one loop iteration over a non-blank chunk
RequestEvents(b, i, n, ok) ==
    IF b = "gemini"
    THEN <<"wait_request", "log_request", "request">>
             \o (IF i < n THEN <<"wait_chunk">> ELSE <<>>)
    ELSE IF b \in {"cloud", "libretranslate"} /\ ok /\ n > 1
         THEN <<"request", "sleep">>
         ELSE <<"request">>

(***************************************************************************)
(* Files, paths and configuration of a process_pdf run.                    *)
(***************************************************************************)
\* chunk_size defaults of the translate_text methods, and config.max_chunk_size
CloudChunkSize == 5000
HuggingFaceChunkSize == 1000
ArgosChunkSize == 2000
LibreTranslateChunkSize == 3000
DefaultMaxChunkSize == 6000

NoPath == <<>>
NoFile == <<"(no file)">>
NoText == <<"(nothing)">>

pdf_path == <<"book", ".pdf">>

\* os.path.splitext(path)[0]
BaseName(path) == SubSeq(path, 1, Len(path) - 1)

generate_output_filename(path, translated) ==
    BaseName(path) \o <<IF translated THEN "_english" ELSE "_tamil_unicode">> \o <<".txt">>

TamilPath == generate_output_filename(pdf_path, FALSE)
EnglishPath == generate_output_filename(pdf_path, TRUE)
CustomPath == <<"out", ".txt">>
Paths == {TamilPath, EnglishPath, CustomPath}

(***************************************************************************)
(* State.                                                                  *)
(***************************************************************************)
VARIABLES
    seg_pc,      \* "input" before the segmenter ran, "done" after, "off" when unused
    seg_text,    \* the segmenter's text argument
    seg_size,    \* its size argument
    seg_kind,    \* "line" or "para"
    seg_out,     \* the list it returned
    \* one translate_text call
    tr_pc,              \* "idle", "loop", "returned", "raised"
    backend,            \* the backend the call runs on
    tr_text,            \* its text argument
    tr_size,            \* the chunk size in force
    chunks,             \* what _split_text returned
    tr_i,               \* enumerate index of the next chunk, from 1
    translated_chunks,  \* the entries collected so far
    failed_chunks,      \* the failure counter
    tr_result,          \* the returned string
    outcome,            \* history: per chunk looked at, "ok", "failed" or "blank"
    events,             \* history: waits, log entries, requests and file writes, in order
    n_split,            \* history: calls of _split_text
    n_translate_text,   \* history: calls of translate_text
    submitted,          \* history: the requests made, [page, chunk, ok] in order
    refused,            \* history: pages whose translate_text found its service gone
    \* one process_pdf run
    pc,                 \* where process_pdf stands
    error,              \* the exception it raised, or "none"
    pdf_exists,         \* whether pdf_path names a file
    start_page,         \* 0 when not given
    end_page,           \* 0 when not given
    translate,
    use_local_translation,
    use_gemini,
    output_path,        \* NoPath when not given
    pdf_pages,          \* what OCR reads on each page of the PDF
    gemini_translation_mode,  \* config: "document" or "chunked"
    max_chunk_size,     \* config
    preferred_service,  \* LocalTranslator(preferred_service), "none" when not given
    translator,         \* "none", "cloud", "gemini" or "local"
    services,           \* LocalTranslator.services (names)
    active_service,     \* LocalTranslator.active_service (name), or "none"
    extracted_pages,    \* <<page_num, text>> pairs
    files,              \* path -> content, NoFile when absent
    page_idx,           \* format_pages_content: index of the page being translated
    translated_parts,
    final_content,
    returned_path,      \* what process_pdf returned, NoPath before
    n_translate_document,  \* history: calls of translate_document
    doc_arg,            \* history: the text translate_document was given
    doc_result,         \* history: what translate_document returned, NoText if nothing
    doc_reply,          \* history: the backend's reply to translate_document, NoText if none
    \* the RateLimiter
    request_times,      \* RateLimiter._request_times: service -> list of timestamps
    now,                \* the clock, in tenths of a second
    max_requests_per_minute,  \* config: the *_MAX_REQUESTS_PER_MINUTE setting
    n_calls,            \* history: calls made on the rate limiter so far
    last_call,          \* history: the last call, [op, service, kind, slept]
    prev_times,         \* history: _request_times before the last call
    \* a constructed LocalTranslator in use
    constructed_services,  \* history: LocalTranslator.services when __init__ returned
    last_switch,        \* history: the last switch_service call, [name, result, before]
    n_switch            \* history: switch_service calls so far

segVars == <<seg_pc, seg_text, seg_size, seg_kind, seg_out>>
trCore == <<tr_pc, backend, tr_text, tr_size, chunks, tr_i, translated_chunks,
            failed_chunks, tr_result, outcome, n_split, n_translate_text,
            submitted, refused>>
trVars == <<trCore, events>>
inputVars == <<pdf_exists, start_page, end_page, translate, use_local_translation,
               use_gemini, pdf_pages, gemini_translation_mode, max_chunk_size,
               preferred_service>>
ppVars == <<pc, error, inputVars, output_path, translator, services, active_service,
            extracted_pages, files, page_idx, translated_parts, final_content,
            returned_path, n_translate_document, doc_arg, doc_result, doc_reply>>
rateVars == <<request_times, now, max_requests_per_minute, n_calls, last_call, prev_times>>
switchVars == <<constructed_services, last_switch, n_switch>>
\* what only the segmenter, the rate limiter and switch_service runs change
sideVars == <<segVars, rateVars, switchVars>>
vars == <<segVars, trVars, ppVars, rateVars, switchVars>>

SegOff ==
    /\ seg_pc = "off"
    /\ seg_text = <<>>
    /\ seg_size = 1
    /\ seg_kind = "line"
    /\ seg_out = <<>>

NoCall == [op |-> "none", service |-> "none", kind |-> "none", slept |-> 0, at |-> 0]

NoSwitch == [name |-> "none", result |-> FALSE, before |-> "none"]

\* a fresh RateLimiter nobody calls, and no switch_service call
RateOff ==
    /\ constructed_services = {}
    /\ last_switch = NoSwitch
    /\ n_switch = 0
    /\ request_times = <<>>
    /\ now = 0
    /\ max_requests_per_minute = 0
    /\ n_calls = 0
    /\ last_call = NoCall
    /\ prev_times = <<>>

TrIdle ==
    /\ tr_pc = "idle"
    /\ backend = "cloud"
    /\ tr_text = <<>>
    /\ tr_size = 1
    /\ chunks = <<>>
    /\ tr_i = 1
    /\ translated_chunks = <<>>
    /\ failed_chunks = 0
    /\ tr_result = <<>>
    /\ outcome = <<>>
    /\ events = <<>>
    /\ n_split = 0
    /\ n_translate_text = 0
    /\ submitted = <<>>
    /\ refused = {}

\* nothing of a run has happened
PipelineRest ==
    /\ error = "none"
    /\ pdf_exists = FALSE
    /\ start_page = 0
    /\ end_page = 0
    /\ translate = FALSE
    /\ use_local_translation = FALSE
    /\ use_gemini = FALSE
    /\ output_path = NoPath
    /\ pdf_pages = <<>>
    /\ gemini_translation_mode = "document"
    /\ max_chunk_size = DefaultMaxChunkSize
    /\ translator = "none"
    /\ services = {}
    /\ active_service = "none"
    /\ extracted_pages = <<>>
    /\ files = [p \in Paths |-> NoFile]
    /\ page_idx = 0
    /\ translated_parts = <<>>
    /\ final_content = NoText
    /\ returned_path = NoPath
    /\ n_translate_document = 0
    /\ doc_arg = NoText
    /\ doc_result = NoText
    /\ doc_reply = NoText

\* no process_pdf run
PipelineOff ==
    /\ pc = "off"
    /\ preferred_service = "none"
    /\ PipelineRest

(***************************************************************************)
(* The segmenter applied to every bounded input.                           *)
(***************************************************************************)
SegInit ==
    /\ seg_pc = "input"
    /\ seg_text \in Texts
    /\ seg_size \in Sizes
    /\ seg_kind \in {"line", "para"}
    /\ RateOff
    /\ seg_out = <<>>
    /\ TrIdle
    /\ PipelineOff

SegSplit ==
    /\ seg_pc = "input"
    /\ seg_out' = _split_text(seg_text, seg_size, seg_kind)
    /\ seg_pc' = "done"
    /\ UNCHANGED <<seg_text, seg_size, seg_kind>>
    /\ UNCHANGED <<trVars, ppVars, rateVars, switchVars>>

SegNext == SegSplit

SpecSeg == SegInit /\ [][SegNext]_vars

(***************************************************************************)
(* translate_text(text, chunk_size) of the five backends.                  *)
(***************************************************************************)
\* entry of translate_text on backend b up to the chunk loop; a probing
\* backend has just answered its is_available() probe
TrBegin(b, text, size) ==
    /\ backend' = b
    /\ tr_text' = text
    /\ tr_size' = size
    /\ n_translate_text' = n_translate_text + 1
    /\ tr_i' = 1
    /\ translated_chunks' = <<>>
    /\ failed_chunks' = 0
    /\ outcome' = <<>>
    /\ tr_result' = <<>>
    /\ UNCHANGED <<submitted, refused>>
    /\ IF Strip(text) = <<>>
       THEN /\ tr_pc' = "returned"
            /\ chunks' = <<>>
            /\ UNCHANGED <<events, n_split>>
       ELSE /\ tr_pc' = "loop"
            /\ chunks' = _split_text(text, size, SplitKind(b))
            /\ n_split' = n_split + 1
            /\ events' = IF b \in ProbingBackends THEN Append(events, "probe") ELSE events

\* entry of translate_text on a probing backend whose is_available() fails
TrBeginUnavailable(b, text, size) ==
    /\ b \in ProbingBackends
    /\ Strip(text) # <<>>
    /\ backend' = b
    /\ tr_text' = text
    /\ tr_size' = size
    /\ n_translate_text' = n_translate_text + 1
    /\ tr_i' = 1
    /\ translated_chunks' = <<>>
    /\ failed_chunks' = 0
    /\ outcome' = <<>>
    /\ tr_result' = <<>>
    /\ chunks' = <<>>
    /\ tr_pc' = "raised"
    /\ events' = Append(events, "probe")
    /\ refused' = refused \cup {page_idx}
    /\ UNCHANGED <<n_split, submitted>>

\* a direct call: backend, text and chunk size are the caller's
TrCall ==
    /\ pc = "off"
    /\ tr_pc = "idle"
    /\ TrBegin(backend, tr_text, tr_size)
    /\ UNCHANGED <<sideVars, ppVars>>

TrCallUnavailable ==
    /\ pc = "off"
    /\ tr_pc = "idle"
    /\ TrBeginUnavailable(backend, tr_text, tr_size)
    /\ UNCHANGED <<sideVars, ppVars>>

InLoop == tr_pc = "loop" /\ tr_i <= Len(chunks)

\* "if chunk.strip():" is false: the chunk is passed over
TrChunkBlank ==
    /\ InLoop
    /\ Strip(chunks[tr_i]) = <<>>
    /\ tr_i' = tr_i + 1
    /\ outcome' = Append(outcome, "blank")
    /\ UNCHANGED <<tr_pc, backend, tr_text, tr_size, chunks, translated_chunks,
                   failed_chunks, tr_result, events, n_split, n_translate_text,
                   submitted, refused>>
    /\ UNCHANGED <<sideVars, ppVars>>

\* the request for the chunk succeeds
TrChunkOk ==
    /\ InLoop
    /\ Strip(chunks[tr_i]) # <<>>
    /\ translated_chunks' = Append(translated_chunks, Translated(backend, chunks[tr_i]))
    /\ events' = events \o RequestEvents(backend, tr_i, Len(chunks), TRUE)
    /\ tr_i' = tr_i + 1
    /\ outcome' = Append(outcome, "ok")
    /\ submitted' = Append(submitted, [page |-> page_idx, chunk |-> tr_i, ok |-> TRUE])
    /\ UNCHANGED <<tr_pc, backend, tr_text, tr_size, chunks, failed_chunks, tr_result,
                   n_split, n_translate_text, refused>>
    /\ UNCHANGED <<sideVars, ppVars>>

\* where the loop goes on after the except branch: the next chunk; first a
\* variant that gives up on the rest of the page
AbortAfterFailure(i, n) == n + 1

AfterFailure(i, n) == i + 1

\* the request for the chunk fails: the except branch
TrChunkFail ==
    /\ InLoop
    /\ Strip(chunks[tr_i]) # <<>>
    /\ translated_chunks' = Append(translated_chunks, Placeholder(backend, tr_i, chunks[tr_i]))
    /\ failed_chunks' = failed_chunks + 1
    /\ events' = events \o RequestEvents(backend, tr_i, Len(chunks), FALSE)
    /\ tr_i' = AfterFailure(tr_i, Len(chunks))
    /\ outcome' = Append(outcome, "failed")
    /\ submitted' = Append(submitted, [page |-> page_idx, chunk |-> tr_i, ok |-> FALSE])
    /\ UNCHANGED <<tr_pc, backend, tr_text, tr_size, chunks, tr_result,
                   n_split, n_translate_text, refused>>
    /\ UNCHANGED <<sideVars, ppVars>>

\* after the loop: the all-failed test, then the join
AllFailed(failed, cs) == failed = Len(cs)

TrFinish ==
    /\ tr_pc = "loop"
    /\ tr_i > Len(chunks)
    /\ IF AllFailed(failed_chunks, chunks)
       THEN tr_pc' = "raised" /\ tr_result' = <<>>
       ELSE tr_pc' = "returned"
            /\ tr_result' = Join(translated_chunks, ChunkJoiner(backend))
    /\ UNCHANGED <<backend, tr_text, tr_size, chunks, tr_i, translated_chunks,
                   failed_chunks, outcome, events, n_split, n_translate_text,
                   submitted, refused>>
    /\ UNCHANGED <<sideVars, ppVars>>

TrInit ==
    /\ SegOff
    /\ RateOff
    /\ tr_pc = "idle"
    /\ backend \in Backends
    /\ tr_text \in TrTexts
    /\ tr_size \in Sizes
    /\ chunks = <<>>
    /\ tr_i = 1
    /\ translated_chunks = <<>>
    /\ failed_chunks = 0
    /\ tr_result = <<>>
    /\ outcome = <<>>
    /\ events = <<>>
    /\ n_split = 0
    /\ n_translate_text = 0
    /\ submitted = <<>>
    /\ refused = {}
    /\ PipelineOff

TrNext ==
    \/ TrCall
    \/ TrCallUnavailable
    \/ TrChunkBlank
    \/ TrChunkOk
    \/ TrChunkFail
    \/ TrFinish

SpecTr == TrInit /\ [][TrNext]_vars

(***************************************************************************)
(* process_pdf: validate, set up the translator, OCR, save the Tamil text, *)
(* translate through format_pages_content, save the translation.          *)
(***************************************************************************)
\* what OCR can read on one page of the PDF
PdfTexts == {<<>>, <<SP, NL>>, <<SP, "b", NL>>, <<"a", NL, NL, NL, NL, "b">>}

PdfPageLists == UNION {[1..n -> PdfTexts] : n \in 1..MaxPages}

LocalServices == {"huggingface", "argos", "libretranslate"}

\* the priority order of LocalTranslator._initialize_services; first a
\* variant that puts the in-process model before the offline one
PriorityOrderModelFirst == <<"huggingface", "argos", "libretranslate">>

PriorityOrder == <<"argos", "huggingface", "libretranslate">>

SelectActive(avail) ==
    LET k == SetMin({j \in 1..Len(PriorityOrder) : PriorityOrder[j] \in avail})
    IN PriorityOrder[k]

\* the backend a translate_text call of the translator lands on
ActiveBackend ==
    IF translator = "local" THEN active_service
    ELSE IF translator = "gemini" THEN "gemini" ELSE "cloud"

\* the chunk size in force when translate_text is called with the text alone
DefaultChunkSize(b) ==
    CASE b = "cloud" -> CloudChunkSize
      [] b = "huggingface" -> HuggingFaceChunkSize
      [] b = "argos" -> ArgosChunkSize
      [] b = "libretranslate" -> LibreTranslateChunkSize
      [] OTHER -> max_chunk_size

\* the whole-document test of format_pages_content; first a variant that
\* ignores has_full_document_support()
UsesWholeDocumentAnyMode(tr, mode) == tr = "gemini"

UsesWholeDocument(tr, mode) == tr = "gemini" /\ mode = "document"

\* TamilOCRProcessor._convert_pdf_to_images; first a variant that numbers
\* the pages of the range from 1
ConvertPdfToImagesFromOne(pages, first, last) ==
    IF first # 0 /\ last # 0
    THEN [images |-> SubSeq(pages, first, IF last > Len(pages) THEN Len(pages) ELSE last),
          page_offset |-> 0]
    ELSE [images |-> pages, page_offset |-> 0]

\* a variant that restricts the pages as soon as one end of the range is
\* given
ConvertPdfToImagesOneEnd(pages, first, last) ==
    IF first # 0 \/ last # 0
    THEN LET from == IF first # 0 THEN first ELSE 1
             to == IF last # 0 /\ last <= Len(pages) THEN last ELSE Len(pages)
         IN [images |-> SubSeq(pages, from, to), page_offset |-> from - 1]
    ELSE [images |-> pages, page_offset |-> 0]

ConvertPdfToImages(pages, first, last) ==
    IF first # 0 /\ last # 0
    THEN [images |-> SubSeq(pages, first, IF last > Len(pages) THEN Len(pages) ELSE last),
          page_offset |-> first - 1]
    ELSE [images |-> pages, page_offset |-> 0]

\* the loop of TamilOCRProcessor.process_pdf; first a variant that keeps the
\* pages without text
ExtractPagesKeepBlank(images, page_offset) ==
    [i \in 1..Len(images) |-> <<i + page_offset, Strip(images[i])>>]

ExtractPages(images, page_offset) ==
    SelectSeq([i \in 1..Len(images) |-> <<i + page_offset, Strip(images[i])>>],
              LAMBDA e : e[2] # <<>>)

PageTexts(pages) == [i \in 1..Len(pages) |-> pages[i][2]]

\* format_pages_content's full_tamil_text
FullTamilText(pages) == Join(PageTexts(pages), ParaSep)

PageMarker(page_num, text) ==
    <<"[Translation Error for page ", ToString(page_num), "]", NL>> \o text

Fail(e) ==
    /\ pc' = "failed"
    /\ error' = e

\* main before it calls process_pdf: with --translate it refuses --local
\* together with --gemini and checks that the chosen translation is available;
\* for --local the check, is_local_translation_available(), constructs a
\* LocalTranslator, which sets up and probes every local service
MainCheckEvents(tr, local, gem) ==
    IF tr /\ local /\ ~gem THEN <<"main_construct">> ELSE <<>>

Main ==
    /\ pc = "main"
    /\ events' = events \o MainCheckEvents(translate, use_local_translation, use_gemini)
    /\ \E available \in BOOLEAN :
          IF translate /\ (~available \/ (use_local_translation /\ use_gemini))
          THEN pc' = "exit" /\ error' = "SystemExit"
          ELSE pc' = "start" /\ UNCHANGED error
    /\ UNCHANGED <<inputVars, output_path, translator, services, active_service,
                   extracted_pages, files, page_idx, translated_parts, final_content,
                   returned_path, n_translate_document, doc_arg, doc_result, doc_reply>>
    /\ UNCHANGED <<sideVars, trCore>>

\* the step after validation: the translator is set up before OCR when
\* translation is asked for; first a variant that goes to OCR at once
AfterValidateNoSetup(tr) == "ocr"

AfterValidate(tr) == IF tr THEN "setup" ELSE "ocr"

Validate ==
    /\ pc = "start"
    /\ IF ~pdf_exists
       THEN Fail("ValueError") /\ UNCHANGED output_path
       ELSE IF start_page # 0 /\ end_page # 0 /\ start_page > end_page
            THEN Fail("ValueError") /\ UNCHANGED output_path
            ELSE /\ output_path' = IF output_path = NoPath
                                   THEN generate_output_filename(pdf_path, translate)
                                   ELSE output_path
                 /\ pc' = AfterValidate(translate)
                 /\ UNCHANGED error
    /\ events' = Append(events, "validate")
    /\ UNCHANGED <<inputVars, translator, services, active_service, extracted_pages,
                   files, page_idx, translated_parts, final_content, returned_path,
                   n_translate_document, doc_arg, doc_result, doc_reply>>
    /\ UNCHANGED <<sideVars, trCore>>

\* TamilTranslator and GeminiTranslator end their constructor with
\* _test_connection, a request to the backend; LocalTranslator does not
ConstructEvents(local) ==
    IF local THEN <<"construct">> ELSE <<"construct", "test_request">>

\* _setup_translator: the constructor and its connection test succeed
SetupOk ==
    /\ pc = "setup"
    /\ \E avail \in (IF use_local_translation THEN SUBSET LocalServices \ {{}} ELSE {{}}) :
          /\ services' = avail
          /\ translator' = IF use_local_translation THEN "local"
                           ELSE IF use_gemini THEN "gemini" ELSE "cloud"
          /\ active_service' = IF use_local_translation THEN SelectActive(avail) ELSE "none"
    /\ events' = events \o ConstructEvents(use_local_translation)
    /\ pc' = "ocr"
    /\ UNCHANGED <<error, inputVars, output_path, extracted_pages, files, page_idx,
                   translated_parts, final_content, returned_path,
                   n_translate_document, doc_arg, doc_result, doc_reply>>
    /\ UNCHANGED <<sideVars, trCore>>

\* where process_pdf stands after _setup_translator's except branch: the
\* failure is raised as TranslationError; first a variant that goes on
\* without a translator
AfterSetupFailureGoOn == "ocr"

AfterSetupFailure == "failed"

\* _setup_translator: construction fails (a missing library, key or service,
\* or the failed connection test of TamilTranslator and GeminiTranslator) and
\* is re-raised as TranslationError
SetupFail ==
    /\ pc = "setup"
    /\ pc' = AfterSetupFailure
    /\ error' = "TranslationError"
    /\ \E tested \in (IF use_local_translation THEN {FALSE} ELSE BOOLEAN) :
          events' = events \o (IF tested THEN <<"construct", "test_request">>
                                         ELSE <<"construct">>)
    /\ UNCHANGED <<inputVars, output_path, translator, services, active_service,
                   extracted_pages, files, page_idx, translated_parts, final_content,
                   returned_path, n_translate_document, doc_arg, doc_result, doc_reply>>
    /\ UNCHANGED <<sideVars, trCore>>

\* ocr_processor.process_pdf runs to its end
Ocr ==
    /\ pc = "ocr"
    /\ LET conv == ConvertPdfToImages(pdf_pages, start_page, end_page)
           pages == ExtractPages(conv.images, conv.page_offset)
       IN IF pages = <<>>
          THEN Fail("OCRError") /\ UNCHANGED extracted_pages
          ELSE extracted_pages' = pages /\ pc' = "save_tamil" /\ UNCHANGED error
    /\ events' = Append(events, "ocr")
    /\ UNCHANGED <<inputVars, output_path, translator, services, active_service,
                   files, page_idx, translated_parts, final_content, returned_path,
                   n_translate_document, doc_arg, doc_result, doc_reply>>
    /\ UNCHANGED <<sideVars, trCore>>

\* the call raises: the conversion or the recognition fails and is re-raised
\* as OCRError
OcrFail ==
    /\ pc = "ocr"
    /\ Fail("OCRError")
    /\ events' = Append(events, "ocr")
    /\ UNCHANGED <<inputVars, output_path, translator, services, active_service,
                   extracted_pages, files, page_idx, translated_parts, final_content,
                   returned_path, n_translate_document, doc_arg, doc_result, doc_reply>>
    /\ UNCHANGED <<sideVars, trCore>>

\* the Tamil text is formatted and saved; without translation the run ends
SaveTamil ==
    /\ pc = "save_tamil"
    /\ files' = [files EXCEPT ![TamilPath] = FullTamilText(extracted_pages)]
    /\ events' = Append(events, "save_tamil")
    /\ IF translate /\ translator # "none"
       THEN pc' = "translate" /\ page_idx' = 1 /\ UNCHANGED returned_path
       ELSE pc' = "done" /\ returned_path' = TamilPath /\ UNCHANGED page_idx
    /\ UNCHANGED <<error, inputVars, output_path, translator, services, active_service,
                   extracted_pages, translated_parts, final_content,
                   n_translate_document, doc_arg, doc_result, doc_reply>>
    /\ UNCHANGED <<sideVars, trCore>>

InWholeDocument ==
    pc = "translate" /\ UsesWholeDocument(translator, gemini_translation_mode)

InPages ==
    pc = "translate" /\ ~UsesWholeDocument(translator, gemini_translation_mode)

\* translate_document on non-blank text: one wait of kind 'request', one
\* log_request, then the request; first a variant that leaves the wait out
DocumentRequestEventsNoWait(text) == <<"log_request", "request">>

DocumentRequestEvents(text) == <<"wait_request", "log_request", "request">>

\* the non-empty replies the backend can give to a document: its
\* translation, the translation with whitespace around it, a reply cut
\* short, and a reply of whitespace alone
DocumentReplies(text) ==
    {BackendTranslate(text),
     <<SP>> \o BackendTranslate(text) \o <<NL>>,
     Take(BackendTranslate(text), 1),
     <<NL>>}

\* output_chars < input_chars * 0.7: the warning is printed
LooksTruncated(text, translated_text) == Len(translated_text) * 10 < Len(text) * 7

\* what translate_document returns for a non-empty reply: the reply
\* stripped, warning or not; first a variant that gives the source text
\* back when the reply looks truncated
DocumentResultBlocking(text, reply) ==
    IF LooksTruncated(text, Strip(reply)) THEN text ELSE Strip(reply)

DocumentResult(text, reply) == Strip(reply)

\* translate_document returns: format_pages_content returns its result
FmtDocumentOk ==
    /\ InWholeDocument
    /\ \E reply \in DocumentReplies(FullTamilText(extracted_pages)) :
       LET text == FullTamilText(extracted_pages)
           blank == Strip(text) = <<>>
           result == IF blank THEN <<>> ELSE DocumentResult(text, reply)
       IN /\ doc_arg' = text
          /\ doc_reply' = IF blank THEN doc_reply ELSE reply
          /\ doc_result' = result
          /\ final_content' = result
          /\ events' = IF blank THEN events
                       ELSE events \o DocumentRequestEvents(text)
          /\ submitted' = IF blank THEN submitted
                          ELSE Append(submitted, [page |-> 0, chunk |-> 0, ok |-> TRUE])
    /\ n_translate_document' = n_translate_document + 1
    /\ pc' = "save_output"
    /\ UNCHANGED <<error, inputVars, output_path, translator, services, active_service,
                   extracted_pages, files, page_idx, translated_parts, returned_path>>
    /\ UNCHANGED <<tr_pc, backend, tr_text, tr_size, chunks, tr_i, translated_chunks,
                   failed_chunks, tr_result, outcome, n_split, n_translate_text, refused>>
    /\ UNCHANGED sideVars

\* what format_pages_content returns when the translation raised; first a
\* variant that returns an error marker in front of the text
TranslationFailureResultMarked(full_tamil_text) ==
    <<"[Translation Error]", NL>> \o full_tamil_text

TranslationFailureResult(full_tamil_text) == full_tamil_text

\* translate_document raises: format_pages_content returns the Tamil text
FmtDocumentFail ==
    /\ InWholeDocument
    /\ Strip(FullTamilText(extracted_pages)) # <<>>
    /\ doc_arg' = FullTamilText(extracted_pages)
    /\ final_content' = TranslationFailureResult(FullTamilText(extracted_pages))
    /\ events' = events \o DocumentRequestEvents(FullTamilText(extracted_pages))
    /\ submitted' = Append(submitted, [page |-> 0, chunk |-> 0, ok |-> FALSE])
    /\ n_translate_document' = n_translate_document + 1
    /\ pc' = "save_output"
    /\ UNCHANGED <<error, inputVars, output_path, translator, services, active_service,
                   extracted_pages, files, page_idx, translated_parts, returned_path,
                   doc_result, doc_reply>>
    /\ UNCHANGED <<tr_pc, backend, tr_text, tr_size, chunks, tr_i, translated_chunks,
                   failed_chunks, tr_result, outcome, n_split, n_translate_text, refused>>
    /\ UNCHANGED sideVars

AtPage == InPages /\ tr_pc = "idle" /\ page_idx <= Len(extracted_pages)

\* translator.translate_text(text) for the next page
FmtPageCall ==
    /\ AtPage
    /\ TrBegin(ActiveBackend, extracted_pages[page_idx][2], DefaultChunkSize(ActiveBackend))
    /\ UNCHANGED <<sideVars, ppVars>>

FmtPageCallUnavailable ==
    /\ AtPage
    /\ TrBeginUnavailable(ActiveBackend, extracted_pages[page_idx][2],
                          DefaultChunkSize(ActiveBackend))
    /\ UNCHANGED <<sideVars, ppVars>>

\* translated_parts.append(...); first a variant that puts the newest page
\* result in front
AddPartFirst(parts, part) == <<part>> \o parts

AddPart(parts, part) == Append(parts, part)

\* the call came back: its text, or the page marker when it raised
FmtPageReturn ==
    /\ InPages
    /\ tr_pc \in {"returned", "raised"}
    /\ translated_parts' =
          AddPart(translated_parts,
                 IF tr_pc = "returned" THEN tr_result
                 ELSE PageMarker(extracted_pages[page_idx][1], extracted_pages[page_idx][2]))
    /\ page_idx' = page_idx + 1
    /\ tr_pc' = "idle"
    /\ UNCHANGED <<pc, error, inputVars, output_path, translator, services, active_service,
                   extracted_pages, files, final_content, returned_path,
                   n_translate_document, doc_arg, doc_result, doc_reply>>
    /\ UNCHANGED <<backend, tr_text, tr_size, chunks, tr_i, translated_chunks,
                   failed_chunks, tr_result, outcome, n_split, n_translate_text,
                   submitted, refused, events>>
    /\ UNCHANGED sideVars

\* all pages done: the parts are joined and returned
FmtReturn ==
    /\ InPages
    /\ tr_pc = "idle"
    /\ page_idx > Len(extracted_pages)
    /\ final_content' = Join(translated_parts, ParaSep)
    /\ pc' = "save_output"
    /\ UNCHANGED <<error, inputVars, output_path, translator, services, active_service,
                   extracted_pages, files, page_idx, translated_parts, returned_path,
                   n_translate_document, doc_arg, doc_result, doc_reply>>
    /\ UNCHANGED <<sideVars, trVars>>

\* what format_pages_content returned is saved and the path returned
SaveOutput ==
    /\ pc = "save_output"
    /\ files' = [files EXCEPT ![output_path] = final_content]
    /\ events' = Append(events, "save_output")
    /\ returned_path' = output_path
    /\ pc' = "done"
    /\ UNCHANGED <<error, inputVars, output_path, translator, services, active_service,
                   extracted_pages, page_idx, translated_parts, final_content,
                   n_translate_document, doc_arg, doc_result, doc_reply>>
    /\ UNCHANGED <<sideVars, trCore>>

\* KeyboardInterrupt while OCR is running: no handler on the way catches it
\* ("except Exception" does not) until main's "except KeyboardInterrupt"
InterruptOcr ==
    /\ pc = "ocr"
    /\ pc' = "interrupted"
    /\ error' = "KeyboardInterrupt"
    /\ events' = Append(events, "interrupt")
    /\ UNCHANGED <<inputVars, output_path, translator, services, active_service,
                   extracted_pages, files, page_idx, translated_parts, final_content,
                   returned_path, n_translate_document, doc_arg, doc_result, doc_reply>>
    /\ UNCHANGED <<sideVars, trCore>>

\* KeyboardInterrupt during the request for a chunk, or during the
\* whole-document request: it leaves translate_text / translate_document,
\* format_pages_content and process_pdf
InterruptRequest ==
    /\ \/ pc = "translate" /\ InLoop /\ Strip(chunks[tr_i]) # <<>>
       \/ InWholeDocument
    /\ pc' = "interrupted"
    /\ error' = "KeyboardInterrupt"
    /\ tr_pc' = IF tr_pc = "loop" THEN "interrupted" ELSE tr_pc
    /\ events' = events
                  \o (IF InWholeDocument
                      THEN DocumentRequestEvents(FullTamilText(extracted_pages))
                      ELSE IF backend = "gemini"
                           THEN <<"wait_request", "log_request", "request">>
                           ELSE <<"request">>)
                  \o <<"interrupt">>
    /\ UNCHANGED <<inputVars, output_path, translator, services, active_service,
                   extracted_pages, files, page_idx, translated_parts, final_content,
                   returned_path, n_translate_document, doc_arg, doc_result, doc_reply>>
    /\ UNCHANGED <<backend, tr_text, tr_size, chunks, tr_i, translated_chunks,
                   failed_chunks, tr_result, outcome, n_split, n_translate_text,
                   submitted, refused>>
    /\ UNCHANGED sideVars

\* KeyboardInterrupt inside is_available() of ArgosTranslator or
\* LibreTranslateClient: the bare "except:" catches it and returns False, so
\* translate_text raises LocalTranslationError like for a service that is gone
InterruptProbe ==
    /\ AtPage
    /\ ActiveBackend \in ProbingBackends
    /\ Strip(extracted_pages[page_idx][2]) # <<>>
    /\ backend' = ActiveBackend
    /\ tr_text' = extracted_pages[page_idx][2]
    /\ tr_size' = DefaultChunkSize(ActiveBackend)
    /\ n_translate_text' = n_translate_text + 1
    /\ tr_i' = 1
    /\ translated_chunks' = <<>>
    /\ failed_chunks' = 0
    /\ outcome' = <<>>
    /\ tr_result' = <<>>
    /\ chunks' = <<>>
    /\ tr_pc' = "raised"
    /\ events' = events \o <<"probe", "interrupt">>
    /\ refused' = refused \cup {page_idx}
    /\ UNCHANGED <<n_split, submitted>>
    /\ UNCHANGED <<sideVars, ppVars>>

\* the command line main parses and the configuration read from the
\* environment
Init ==
    /\ SegOff
    /\ TrIdle
    /\ RateOff
    /\ pc = "main"
    /\ error = "none"
    /\ pdf_exists \in BOOLEAN
    /\ start_page \in 0..MaxPages
    /\ end_page \in 0..MaxPages
    /\ translate \in BOOLEAN
    /\ use_local_translation \in BOOLEAN
    /\ use_gemini \in BOOLEAN
    /\ translate = FALSE => (use_local_translation = FALSE /\ use_gemini = FALSE)
    /\ output_path \in {NoPath, TamilPath, CustomPath}
    /\ pdf_pages \in PdfPageLists
    /\ (pdf_exists = FALSE \/ (use_local_translation /\ use_gemini)) =>
          /\ start_page = 0
          /\ end_page = 0
          /\ output_path = NoPath
          /\ pdf_pages = <<<<>>>>
    /\ gemini_translation_mode \in {"document", "chunked"}
    /\ max_chunk_size \in {EnvChunkSize, DefaultMaxChunkSize}
    /\ preferred_service = "none"
    /\ use_gemini = FALSE =>
          (gemini_translation_mode = "document" /\ max_chunk_size = DefaultMaxChunkSize)
    /\ gemini_translation_mode = "document" => max_chunk_size = DefaultMaxChunkSize
    /\ translator = "none"
    /\ services = {}
    /\ active_service = "none"
    /\ extracted_pages = <<>>
    /\ files = [p \in Paths |-> NoFile]
    /\ page_idx = 0
    /\ translated_parts = <<>>
    /\ final_content = NoText
    /\ returned_path = NoPath
    /\ n_translate_document = 0
    /\ doc_arg = NoText
    /\ doc_result = NoText
    /\ doc_reply = NoText

Next ==
    \/ Main
    \/ Validate
    \/ SetupOk
    \/ SetupFail
    \/ Ocr
    \/ OcrFail
    \/ SaveTamil
    \/ FmtDocumentOk
    \/ FmtDocumentFail
    \/ FmtPageCall
    \/ FmtPageCallUnavailable
    \/ TrChunkBlank
    \/ TrChunkOk
    \/ TrChunkFail
    \/ TrFinish
    \/ FmtPageReturn
    \/ FmtReturn
    \/ SaveOutput
    \/ InterruptOcr
    \/ InterruptRequest
    \/ InterruptProbe

Spec == Init /\ [][Next]_vars

(***************************************************************************)
(* LocalTranslator(preferred_service): _initialize_services sets up and     *)
(* probes HuggingFace, Argos and LibreTranslate in turn, selects the       *)
(* active service, and the constructor raises when no service is there.    *)
(***************************************************************************)
PreferredChoices == {"none", "other"} \cup LocalServices

\* the selection at the end of _initialize_services
ChooseActive(preferred, avail) ==
    IF preferred # "none" /\ preferred \in avail THEN preferred
    ELSE IF avail # {} THEN SelectActive(avail)
    ELSE "none"

\* one "try: ... if translator.is_available(): self.services[name] = ..."
\* block: the service is registered, or its constructor raised or its probe
\* said no
LtTry(name, after) ==
    /\ pc = name
    /\ \E ok \in BOOLEAN : services' = IF ok THEN services \cup {name} ELSE services
    /\ pc' = after
    /\ UNCHANGED <<error, inputVars, output_path, translator, active_service,
                   extracted_pages, files, page_idx, translated_parts, final_content,
                   returned_path, n_translate_document, doc_arg, doc_result, doc_reply>>
    /\ UNCHANGED <<sideVars, trVars>>

LtHuggingFace == LtTry("huggingface", "argos")

LtArgos == LtTry("argos", "libretranslate")

LtLibreTranslate == LtTry("libretranslate", "select")

LtSelect ==
    /\ pc = "select"
    /\ active_service' = ChooseActive(preferred_service, services)
    /\ pc' = "check"
    /\ UNCHANGED <<error, inputVars, output_path, translator, services,
                   extracted_pages, files, page_idx, translated_parts, final_content,
                   returned_path, n_translate_document, doc_arg, doc_result, doc_reply>>
    /\ UNCHANGED <<sideVars, trVars>>

\* back in __init__: "if not self.services: raise LocalTranslationError"
LtCheck ==
    /\ pc = "check"
    /\ IF services = {}
       THEN pc' = "raised" /\ error' = "LocalTranslationError"
       ELSE pc' = "constructed" /\ UNCHANGED error
    /\ constructed_services' = services
    /\ UNCHANGED <<inputVars, output_path, translator, services, active_service,
                   extracted_pages, files, page_idx, translated_parts, final_content,
                   returned_path, n_translate_document, doc_arg, doc_result, doc_reply>>
    /\ UNCHANGED <<segVars, rateVars, trVars, last_switch, n_switch>>

MaxSwitches == 2

\* the names switch_service is called with: the three services and one
\* that is none of them
SwitchNames == LocalServices \cup {"other"}

\* a variant that takes any name
IsRegisteredAny(service_name, registered) == TRUE

\* "if service_name in self.services"
IsRegistered(service_name, registered) == service_name \in registered

switch_service(service_name) ==
    /\ pc = "constructed"
    /\ n_switch < MaxSwitches
    /\ LET result == IsRegistered(service_name, services)
       IN  /\ active_service' = IF result THEN service_name ELSE active_service
           /\ last_switch' = [name |-> service_name, result |-> result,
                              before |-> active_service]
    /\ n_switch' = n_switch + 1
    /\ UNCHANGED <<pc, error, inputVars, output_path, translator, services,
                   extracted_pages, files, page_idx, translated_parts, final_content,
                   returned_path, n_translate_document, doc_arg, doc_result, doc_reply>>
    /\ UNCHANGED <<segVars, rateVars, trVars, constructed_services>>

LtSwitchService == \E service_name \in SwitchNames : switch_service(service_name)

LtInit ==
    /\ SegOff
    /\ TrIdle
    /\ RateOff
    /\ PipelineRest
    /\ pc = "huggingface"
    /\ preferred_service \in PreferredChoices

LtNext ==
    \/ LtHuggingFace
    \/ LtArgos
    \/ LtLibreTranslate
    \/ LtSelect
    \/ LtCheck
    \/ LtSwitchService

SpecLocal == LtInit /\ [][LtNext]_vars

(***************************************************************************)
(* Claims about the segmenter (checked under SpecSeg).                     *)
(***************************************************************************)
SegUnits == Split(seg_text, Boundary(seg_kind))

\* C1: joining the chunks _split_text returned with the boundary string it
\* split on reproduces the input text exactly.
C1_RoundTrip ==
    seg_pc = "done" => Join(seg_out, Boundary(seg_kind)) = seg_text

\* C2: every chunk is at most chunk_size long, unless it is one atomic unit
\* (a line, or a paragraph for Gemini) that alone is longer than chunk_size.
C2_SizeBound ==
    seg_pc = "done" =>
        \A i \in 1..Len(seg_out) :
            \/ Len(seg_out[i]) <= seg_size
            \/ \E j \in 1..Len(SegUnits) :
                  /\ Len(SegUnits[j]) > seg_size
                  /\ seg_out[i] = Strip(SegUnits[j])

\* several chunks came back, one of them an oversized single unit
C2_Witness ==
    /\ seg_pc = "done"
    /\ Len(seg_out) >= 2
    /\ \E i \in 1..Len(seg_out) : Len(seg_out[i]) > seg_size
    /\ \E i \in 1..Len(seg_out) : seg_out[i] # <<>> /\ Len(seg_out[i]) <= seg_size

\* C3: the segmenter applied to the empty text returns the empty sequence,
\* not a sequence holding one empty segment.
C3_EmptyTextNoSegments ==
    (seg_pc = "done" /\ seg_text = <<>>) => seg_out = <<>>

(***************************************************************************)
(* Claims about translate_text (checked under SpecTr).                     *)
(***************************************************************************)
\* sub occurs in s as a contiguous run
Contains(s, sub) ==
    \E k \in 0..(Len(s) - Len(sub)) : SubSeq(s, k + 1, k + Len(sub)) = sub

\* the chunk indices that were submitted, in order: entry k of
\* translated_chunks was appended for chunk SubmittedIdx[k]
SubmittedIdx ==
    SelectSeq([i \in 1..Len(outcome) |-> i], LAMBDA i : outcome[i] # "blank")

SomeFailed == \E i \in 1..Len(outcome) : outcome[i] = "failed"
SomeTranslated == \E i \in 1..Len(outcome) : outcome[i] = "ok"

\* C4: when some but not all of the N chunks fail, the returned text holds at
\* position i the placeholder of chunk i if it failed and the translation of
\* chunk i otherwise; no result sits at another chunk's position.
C4_ResultAtChunkPosition ==
    (tr_pc = "returned" /\ SomeFailed /\ SomeTranslated) =>
        /\ tr_result = Join(translated_chunks, ChunkJoiner(backend))
        /\ \A i \in 1..Len(chunks) :
              outcome[i] # "blank" =>
                  /\ i <= Len(translated_chunks)
                  /\ translated_chunks[i] =
                        IF outcome[i] = "failed"
                        THEN Placeholder(backend, i, chunks[i])
                        ELSE Translated(backend, chunks[i])

Waits == {"wait_request", "wait_chunk", "sleep"}

\* C9: on every backend each request is preceded by a rate-governor wait that
\* comes after the previous request: one before the first request, one
\* between any two consecutive requests.
C9_WaitBeforeEveryRequest ==
    \A k \in 1..Len(events) :
        events[k] = "request" =>
            \E j \in 1..(k - 1) :
                /\ events[j] \in Waits
                /\ \A m \in (j + 1)..(k - 1) : events[m] # "request"

(***************************************************************************)
(* Claims about format_pages_content and process_pdf (checked under Spec). *)
(***************************************************************************)
Finished == pc \in {"save_output", "done"}

Chunked ==
    /\ translate
    /\ translator # "none"
    /\ ~(translator = "gemini" /\ gemini_translation_mode = "document")

AllRequestsFailed ==
    /\ submitted # <<>>
    /\ \A k \in 1..Len(submitted) : ~submitted[k].ok

\* C5: in chunked mode, when the backend fails on every segment of every
\* page, format_pages_content raises a batch-level error instead of returning
\* a string made of placeholders or untranslated text.
C5_AllFailedRaises ==
    (Chunked /\ refused = {} /\ AllRequestsFailed) => ~Finished

\* the chunks translate_text makes of page p
PageChunks(p) ==
    _split_text(extracted_pages[p][2], DefaultChunkSize(ActiveBackend),
                SplitKind(ActiveBackend))

\* the loops have gone past chunk i of page p
Passed(p, i) ==
    \/ p < page_idx
    \/ p = page_idx /\ tr_pc # "idle" /\ i < tr_i

WasSubmitted(p, i) ==
    \E k \in 1..Len(submitted) : submitted[k].page = p /\ submitted[k].chunk = i

\* C6: in chunked mode a failed request never keeps a later chunk of the page
\* or a chunk of a later page from being submitted: every non-blank chunk the
\* loops have gone past was submitted (unless the page's service was found
\* gone before its first chunk), and a finished run has gone past every page.
C6_FailureIsSegmentScoped ==
    (Chunked /\ pc \in {"translate", "save_output", "done"}) =>
        /\ Finished => page_idx > Len(extracted_pages)
        /\ \A p \in 1..Len(extracted_pages) :
              p \notin refused =>
                  \A i \in 1..Len(PageChunks(p)) :
                      (Passed(p, i) /\ Strip(PageChunks(p)[i]) # <<>>) => WasSubmitted(p, i)

\* a finished run in which a request failed, a later chunk of the same page
\* was submitted and so was a chunk of a later page
C6_Witness ==
    /\ pc = "done"
    /\ Chunked
    /\ \E k1, k2, k3 \in 1..Len(submitted) :
          /\ k1 < k2 /\ k2 < k3
          /\ ~submitted[k1].ok
          /\ submitted[k2].page = submitted[k1].page
          /\ submitted[k3].page > submitted[k1].page

WholeDocumentMode == translator = "gemini" /\ gemini_translation_mode = "document"

\* C8: with a GeminiTranslator in mode "document", format_pages_content never
\* calls _split_text or translate_text; it calls translate_document once, on
\* all page texts joined by a blank line, and returns its result unchanged.
\* With any other translator or mode it calls translate_text per page only.
C8_WholeDocumentBypass ==
    /\ WholeDocumentMode => (n_split = 0 /\ n_translate_text = 0 /\ n_translate_document <= 1)
    /\ ~WholeDocumentMode => n_translate_document = 0
    /\ (Finished /\ translate) =>
          IF WholeDocumentMode
          THEN /\ n_translate_document = 1
               /\ doc_arg = Join(PageTexts(extracted_pages), <<NL, NL>>)
               /\ doc_result # NoText => final_content = doc_result
          ELSE n_translate_text = Len(extracted_pages)

\* a finished whole-document run over several pages whose result was returned
C8_Witness ==
    /\ pc = "done"
    /\ WholeDocumentMode
    /\ Len(extracted_pages) >= 2
    /\ doc_result # NoText
    /\ files[output_path] = doc_result

OcrReturnedPages == extracted_pages # <<>>

PrecededBySave(k) == \E j \in 1..(k - 1) : events[j] = "save_tamil"

\* translation failed partly or totally
TranslationFailed ==
    \/ refused # {}
    \/ \E k \in 1..Len(submitted) : ~submitted[k].ok

\* C10: in a run in which OCR returned pages, the Tamil text is written to
\* <basename>_tamil_unicode.txt before the first request that translates text
\* of the document is issued, and when translation afterwards fails partly or
\* totally the file is still there with that content.
C10_TamilFileFirstAndKept ==
    (OcrReturnedPages /\ pc # "save_tamil") =>
        /\ \A k \in 1..Len(events) : events[k] = "request" => PrecededBySave(k)
        /\ files[TamilPath] # NoFile
        /\ TranslationFailed => files[TamilPath] = FullTamilText(extracted_pages)

\* the translation was written to output_path
OutputWritten == \E k \in 1..Len(events) : events[k] = "save_output"

\* page p's translate_text raised and format_pages_content put the page
\* marker and the Tamil text of the page in its place
PageFellBack(p) ==
    /\ p <= Len(translated_parts)
    /\ translated_parts[p] = PageMarker(extracted_pages[p][1], extracted_pages[p][2])

\* C11: whenever process_pdf writes the translated-output path, the content is
\* text the backend produced (the whole-document translation, or the page
\* translations reassembled), never the Tamil text of a failed translation.
C11_OutputIsBackendText ==
    (OutputWritten /\ translate) =>
        /\ files[output_path] = final_content
        /\ IF WholeDocumentMode
           THEN doc_result # NoText /\ final_content = doc_result
           ELSE \A p \in 1..Len(extracted_pages) : ~PageFellBack(p)

ConstructionFailed == error = "TranslationError"

WorkEvents == {"ocr", "request", "save_tamil", "save_output"}

\* C12: a backend construction failure aborts process_pdf with an error
\* before any OCR is run, before any request translating document text and
\* before any output file is written.
C12_ConstructionFailureAbortsFirst ==
    ConstructionFailed =>
        /\ pc = "failed"
        /\ \A k \in 1..Len(events) : events[k] \notin WorkEvents
        /\ extracted_pages = <<>>
        /\ submitted = <<>>
        /\ \A p \in Paths : files[p] = NoFile
        /\ returned_path = NoPath

\* a translating run on an existing PDF with pages whose backend could not be
\* constructed
C12_Witness ==
    /\ ConstructionFailed
    /\ pc = "failed"
    /\ pdf_exists
    /\ translate
    /\ Len(pdf_pages) >= 2

ValidationFailed == error = "ValueError"

BackendEvents == {"main_construct", "construct", "probe", "test_request", "request"}

\* C13: when the PDF does not exist or the start page is greater than the end
\* page, the run fails with a validation error before any backend is probed
\* or constructed, before OCR starts and before any file is written.
C13_ValidationPrecedesProcessing ==
    /\ (pc \notin {"main", "start", "exit"}
            /\ (~pdf_exists \/ (start_page # 0 /\ end_page # 0 /\ start_page > end_page)))
          => ValidationFailed
    /\ ValidationFailed =>
          /\ pc = "failed"
          /\ \A k \in 1..Len(events) : events[k] \notin BackendEvents \cup WorkEvents
          /\ \A p \in Paths : files[p] = NoFile

\* the pages the OCR step processes
ProcessedImages == ConvertPdfToImages(pdf_pages, start_page, end_page).images

AllPagesBlank == \A i \in 1..Len(ProcessedImages) : Strip(ProcessedImages[i]) = <<>>

OcrRan == \E k \in 1..Len(events) : events[k] = "ocr"

PageRequests(p) == SelectSeq(submitted, LAMBDA r : r.page = p)

\* what each request for page p put into the page's list of results
PageResults(p) ==
    LET recs == PageRequests(p)
    IN [k \in 1..Len(recs) |->
           IF recs[k].ok
           THEN Translated(ActiveBackend, PageChunks(p)[recs[k].chunk])
           ELSE Placeholder(ActiveBackend, recs[k].chunk, PageChunks(p)[recs[k].chunk])]

InChunkOrder(p) ==
    \A k1, k2 \in 1..Len(PageRequests(p)) :
        k1 < k2 => PageRequests(p)[k1].chunk < PageRequests(p)[k2].chunk

Rank(name) ==
    CASE name = "argos" -> 1
      [] name = "huggingface" -> 2
      [] name = "libretranslate" -> 3
      [] OTHER -> 4

\* C16: after LocalTranslator's construction (and before any switch_service
\* call) without a preferred service, or
\* with a preferred service that is not available, the active service is the
\* available one that comes first in the order Argos, HuggingFace,
\* LibreTranslate; construction raises LocalTranslationError exactly when no
\* service is available.
C16_ActiveServiceByPriority ==
    /\ pc = "constructed" =>
          /\ services # {}
          /\ error = "none"
          /\ (preferred_service \notin services /\ n_switch = 0) =>
                /\ active_service \in services
                /\ \A name \in services : Rank(active_service) <= Rank(name)
    /\ pc = "raised" => (services = {} /\ error = "LocalTranslationError")

\* the preferred service is not there, HuggingFace and LibreTranslate are:
\* HuggingFace is active
C16_Witness ==
    /\ pc = "constructed"
    /\ n_switch = 0
    /\ preferred_service = "argos"
    /\ services = {"huggingface", "libretranslate"}
    /\ active_service = "huggingface"

(***************************************************************************)
(* Cancellation (checked under Spec).                                      *)
(***************************************************************************)
AfterInterruptEvents == {"probe", "request", "save_tamil", "save_output"}

\* C17: a KeyboardInterrupt raised at any point of processing, inside a
\* readiness probe or a segment translation included, aborts the run at
\* once: after it no backend request is issued and no output file is
\* written, and the Tamil file written before is still there.
C17_InterruptAbortsImmediately ==
    \A k \in 1..Len(events) :
        events[k] = "interrupt" =>
            /\ pc \notin {"save_output", "done"}
            /\ \A m \in (k + 1)..Len(events) : events[m] \notin AfterInterruptEvents
            /\ PrecededBySave(k) => files[TamilPath] = FullTamilText(extracted_pages)

(***************************************************************************)
(* Further claims about translate_text (checked under SpecTr).             *)
(***************************************************************************)
\* C18: whenever translate_text returns normally, the list it joins has
\* exactly one entry, a translation or a placeholder, for every chunk that
\* _split_text produced.
C18_OneResultPerChunk ==
    (tr_pc = "returned" /\ n_split > 0) =>
        /\ Len(translated_chunks) = Len(chunks)
        /\ \A i \in 1..Len(chunks) :
              translated_chunks[i] \in {Translated(backend, chunks[i]),
                                        Placeholder(backend, i, chunks[i])}

\* C19: on every backend translate_text raises its translation error whenever
\* every chunk it submitted failed, however _split_text chunked the text
\* (whitespace-only chunks included), and returns normally whenever a
\* submitted chunk succeeded.
C19_AllFailedDetected ==
    (tr_pc \in {"returned", "raised"} /\ n_split > 0) =>
        /\ (SomeFailed /\ ~SomeTranslated) => tr_pc = "raised"
        /\ SomeTranslated => tr_pc = "returned"

(***************************************************************************)
(* The order of the steps of process_pdf (checked under Spec).             *)
(***************************************************************************)
Happened(e) == \E k \in 1..Len(events) : events[k] = e

\* every a comes before every b
Before(a, b) ==
    \A k \in 1..Len(events) :
        events[k] = a => \A j \in 1..k : events[j] # b

\* C20 (as claimed): with translation requested the backend is constructed
\* only after the OCR pages were obtained and the Tamil text was saved; the
\* order is validate, extract, persist Tamil, construct, translate, persist
\* English.
C20_ConstructAfterTamilSaved ==
    translate =>
        /\ Before("validate", "ocr")
        /\ Before("ocr", "save_tamil")
        /\ Before("save_tamil", "construct")
        /\ Before("construct", "request")
        /\ Before("request", "save_output")

\* C20 (amended): with translation requested the backend is constructed
\* right after validation, before OCR; the order is validate, construct,
\* extract, persist Tamil, translate, persist English, and a run that
\* finishes has gone through all of them.
C20_ConstructBeforeOcr ==
    translate =>
        /\ Before("validate", "construct")
        /\ Before("construct", "ocr")
        /\ Before("ocr", "save_tamil")
        /\ Before("save_tamil", "request")
        /\ Before("request", "save_output")
        /\ pc = "done" =>
              /\ Happened("validate")
              /\ Happened("construct")
              /\ Happened("ocr")
              /\ Happened("save_tamil")
              /\ Happened("save_output")

\* a finished translating run that made a request
C20_Witness ==
    /\ pc = "done"
    /\ translate
    /\ Happened("request")
    /\ Happened("save_output")
    /\ files[output_path] = final_content

(***************************************************************************)
(* Whole-document mode and the rate governor (checked under Spec).         *)
(***************************************************************************)
GovernorKinds == {"wait_request", "wait_chunk", "sleep", "log_request", "request"}

\* the waits, log entries and requests of the run, in order
GovernorEvents == SelectSeq(events, LAMBDA e : e \in GovernorKinds)

\* C21: whole-document mode issues exactly one rate-governor wait of kind
\* 'request' and one log_request, both before its single backend request,
\* whatever the length of the document.
C21_OneWaitOneRequest ==
    (WholeDocumentMode /\ translate) =>
        /\ GovernorEvents \in {<<>>, <<"wait_request", "log_request", "request">>}
        /\ n_translate_document = 1 =>
              GovernorEvents = <<"wait_request", "log_request", "request">>

\* a finished whole-document run over a document of several pages and
\* several paragraphs
C21_Witness ==
    /\ pc = "done"
    /\ WholeDocumentMode
    /\ n_translate_document = 1
    /\ Len(extracted_pages) >= 2
    /\ Len(Split(doc_arg, ParaSep)) >= 3
    /\ GovernorEvents = <<"wait_request", "log_request", "request">>

\* C22: the completeness check of translate_document is advisory: when the
\* backend returns non-empty text, translate_document returns that text
\* (stripped of surrounding whitespace, as every reply is) whether or not it
\* is shorter than 70% of the source; a short result raises nothing and
\* does not change what is returned.
C22_CompletenessCheckIsAdvisory ==
    doc_reply # NoText =>
        /\ doc_result = Strip(doc_reply)
        /\ pc \in {"save_output", "done"}
        /\ error = "none"
        /\ final_content = doc_result
        /\ pc = "done" => files[output_path] = doc_result

\* a finished run whose translation was shorter than 70% of the source and
\* was written as it came
C22_Witness ==
    /\ pc = "done"
    /\ doc_reply # NoText
    /\ doc_result # <<>>
    /\ LooksTruncated(doc_arg, doc_result)
    /\ files[output_path] = doc_result

(***************************************************************************)
(* The RateLimiter of config.py on its own: any sequence of               *)
(* wait_if_needed and log_request calls against a clock that never goes   *)
(* back.  Time is counted in tenths of a second, the grain of the          *)
(* configured delays.                                                      *)
(***************************************************************************)
MaxCalls == 3
MaxClock == 1300

\* the 60 seconds of "minute_ago = current_time - 60", in tenths
Window == 600
\* the default delays, in tenths of a second
GeminiDelayBetweenRequests == 20
GeminiDelayBetweenChunks == 10
GoogleTranslateDelayBetweenRequests == 5
GoogleTranslateDelayBetweenChunks == 2
LocalTranslateDelayBetweenRequests == 5
LocalTranslateDelayBetweenChunks == 2
DefaultDelay == 5

RateServices == {"gemini", "google_translate", "local_translate", "other"}
RequestTypes == {"request", "chunk"}
\* settings of *_MAX_REQUESTS_PER_MINUTE the runs are made under
MaxRequestsSettings == {1, 15}
\* how far the clock moves between two calls
ClockSteps == {590, 600}

Delay(service, request_type) ==
    IF service = "gemini"
    THEN IF request_type = "chunk" THEN GeminiDelayBetweenChunks
                                   ELSE GeminiDelayBetweenRequests
    ELSE IF service = "google_translate"
    THEN IF request_type = "chunk" THEN GoogleTranslateDelayBetweenChunks
                                   ELSE GoogleTranslateDelayBetweenRequests
    ELSE IF service = "local_translate"
    THEN IF request_type = "chunk" THEN LocalTranslateDelayBetweenChunks
                                   ELSE LocalTranslateDelayBetweenRequests
    ELSE DefaultDelay

\* a variant that never forgets a request
KeepAll(times, current_time) == times

\* the requests of the last minute
KeepRecent(times, current_time) ==
    SelectSeq(times, LAMBDA req_time : req_time > current_time - Window)

\* a variant keeping one log for all services
LogKeyShared(service) == "gemini"

\* the key of _request_times a request of the service is logged under
LogKey(service) == service

RequestLog(times, service) ==
    IF service \in DOMAIN times THEN times[service] ELSE <<>>

wait_if_needed(service, request_type) ==
    /\ pc = "off"
    /\ n_calls < MaxCalls
    /\ LET delay == Delay(service, request_type)
           slept == IF delay > 0 THEN delay ELSE 0
       IN  /\ now + slept <= MaxClock
           /\ now' = now + slept
           /\ last_call' = [op |-> "wait_if_needed", service |-> service,
                            kind |-> request_type, slept |-> slept, at |-> now]
    /\ prev_times' = request_times
    /\ n_calls' = n_calls + 1
    /\ UNCHANGED <<request_times, max_requests_per_minute>>
    /\ UNCHANGED <<segVars, trVars, ppVars, switchVars>>

log_request(service) ==
    /\ pc = "off"
    /\ n_calls < MaxCalls
    /\ LET current_time == now
           key == LogKey(service)
           kept == KeepRecent(RequestLog(request_times, key), current_time)
       IN  /\ request_times' =
                  [s \in DOMAIN request_times \cup {key} |->
                      IF s = key THEN Append(kept, current_time)
                                 ELSE request_times[s]]
           /\ last_call' = [op |-> "log_request", service |-> service,
                            kind |-> "none", slept |-> 0, at |-> current_time]
    /\ prev_times' = request_times
    /\ n_calls' = n_calls + 1
    /\ UNCHANGED <<now, max_requests_per_minute>>
    /\ UNCHANGED <<segVars, trVars, ppVars, switchVars>>

\* time passes between two calls
Tick ==
    /\ pc = "off"
    /\ \E step \in ClockSteps :
           /\ now + step <= MaxClock
           /\ now' = now + step
    /\ UNCHANGED <<request_times, max_requests_per_minute, n_calls, last_call, prev_times>>
    /\ UNCHANGED <<segVars, trVars, ppVars, switchVars>>

WaitIfNeeded == \E service \in RateServices, request_type \in RequestTypes :
                    wait_if_needed(service, request_type)

LogRequest == \E service \in RateServices : log_request(service)

\* RateLimiter.__init__ under some configuration
RateInit ==
    /\ SegOff
    /\ TrIdle
    /\ PipelineOff
    /\ constructed_services = {}
    /\ last_switch = NoSwitch
    /\ n_switch = 0
    /\ request_times = <<>>
    /\ now = 0
    /\ max_requests_per_minute \in MaxRequestsSettings
    /\ n_calls = 0
    /\ last_call = NoCall
    /\ prev_times = <<>>

RateNext == WaitIfNeeded \/ LogRequest \/ Tick

SpecRate == RateInit /\ [][RateNext]_vars

\* C23: after a log_request the log of the service just logged ends with
\* the current timestamp, holds only timestamps strictly newer than 60
\* seconds before it, in non-decreasing order; and the request is logged
\* whatever the number of requests already in the window, the configured
\* maximum per minute included.
C23_SlidingWindow ==
    last_call.op = "log_request" =>
        /\ last_call.service \in DOMAIN request_times
        /\ LET log == request_times[last_call.service]
           IN  /\ Len(log) >= 1
               /\ log[Len(log)] = last_call.at
               /\ \A i \in 1..Len(log) : log[i] > last_call.at - Window
               /\ \A i \in 1..(Len(log) - 1) : log[i] <= log[i + 1]
               /\ n_calls > 0

\* a request logged past the configured maximum, after an older one left
\* the window
C23_Witness ==
    /\ last_call.op = "log_request"
    /\ last_call.service \in DOMAIN prev_times
    /\ \E i \in 1..Len(prev_times[last_call.service]) :
           prev_times[last_call.service][i] <= last_call.at - Window
    /\ Len(request_times[last_call.service]) > max_requests_per_minute

\* C24: log_request(s) leaves the log of every other service as it was,
\* wait_if_needed changes no log, and the time wait_if_needed sleeps is
\* fixed by the service and the call kind alone.
C24_IndependentWindows ==
    /\ last_call.op = "log_request" =>
           /\ DOMAIN request_times = DOMAIN prev_times \cup {last_call.service}
           /\ \A s \in DOMAIN prev_times \ {last_call.service} :
                  request_times[s] = prev_times[s]
    /\ last_call.op = "wait_if_needed" =>
           /\ request_times = prev_times
           /\ last_call.slept =
                  (CASE last_call.service = "gemini" ->
                            IF last_call.kind = "chunk" THEN GeminiDelayBetweenChunks
                                                        ELSE GeminiDelayBetweenRequests
                     [] last_call.service = "google_translate" ->
                            IF last_call.kind = "chunk" THEN GoogleTranslateDelayBetweenChunks
                                                        ELSE GoogleTranslateDelayBetweenRequests
                     [] last_call.service = "local_translate" ->
                            IF last_call.kind = "chunk" THEN LocalTranslateDelayBetweenChunks
                                                        ELSE LocalTranslateDelayBetweenRequests
                     [] OTHER -> DefaultDelay)

\* a request logged for one service while another has requests in its window
C24_Witness ==
    /\ last_call.op = "log_request"
    /\ \E s \in DOMAIN prev_times \ {last_call.service} :
           /\ Len(prev_times[s]) >= 2
           /\ request_times[s] = prev_times[s]

(***************************************************************************)
(* Claims about a constructed LocalTranslator (checked under SpecLocal).   *)
(***************************************************************************)
\* C25: under any sequence of switch_service calls the active service is one
\* of the services available at construction; switch_service(name) returns
\* true and makes name active exactly when name is available, otherwise it
\* returns false and leaves the active service as it was; the available set
\* never changes after construction.
C25_SwitchKeepsActiveAvailable ==
    pc = "constructed" =>
        /\ active_service \in constructed_services
        /\ services = constructed_services
        /\ last_switch # NoSwitch =>
               /\ last_switch.result <=> last_switch.name \in constructed_services
               /\ last_switch.result => active_service = last_switch.name
               /\ ~last_switch.result => active_service = last_switch.before

\* a switch to an available service took effect, and a later switch to a
\* service that is not available was turned down
C25_Witness ==
    /\ pc = "constructed"
    /\ n_switch = 2
    /\ ~last_switch.result
    /\ last_switch.name \in LocalServices
    /\ active_service # ChooseActive(preferred_service, services)

(***************************************************************************)
(* Readiness probes (checked under Spec).                                  *)
(***************************************************************************)
Constructions ==
    {k \in 1..Len(events) : events[k] \in {"main_construct", "construct"}}

\* C26: a backend's readiness check is made once, when it is constructed: no
\* probe is made during or between translate_text calls, and in one run the
\* backend is constructed (and with that probed) at most once.
C26_ProbedOnceAtConstruction ==
    /\ \A k \in 1..Len(events) : events[k] # "probe"
    /\ Cardinality(Constructions) <= 1

(***************************************************************************)
(* The page list of the OCR step (checked under Spec).                     *)
(***************************************************************************)
RangeGiven == start_page # 0 /\ end_page # 0

DocumentRaised ==
    /\ WholeDocumentMode
    /\ \E k \in 1..Len(submitted) : submitted[k].page = 0 /\ ~submitted[k].ok

RequestCount == Cardinality({k \in 1..Len(events) : events[k] = "request"})

\* C28: when translate_document raises in whole-document mode,
\* format_pages_content raises nothing and returns the untranslated Tamil
\* text, all page texts joined by a blank line; there is no chunked retry:
\* no _split_text, no translate_text, no second request.
C28_DocumentFailureReturnsTamil ==
    DocumentRaised =>
        /\ pc \in {"save_output", "done"}
        /\ error = "none"
        /\ final_content = Join(PageTexts(extracted_pages), <<NL, NL>>)
        /\ n_split = 0
        /\ n_translate_text = 0
        /\ n_translate_document = 1
        /\ RequestCount = 1
        /\ tr_pc = "idle"

\* translate_document raised on a document of two pages and the run ended
C28_Witness ==
    /\ DocumentRaised
    /\ pc = "done"
    /\ Len(extracted_pages) = 2
    /\ final_content = extracted_pages[1][2] \o <<NL, NL>> \o extracted_pages[2][2]

(***************************************************************************)
(* The page range (checked under Spec).                                    *)
(***************************************************************************)
\* the positions in the PDF of the pages that carry text
TextPositions == {i \in 1..Len(pdf_pages) : Strip(pdf_pages[i]) # <<>>}

ReturnedPositions == {extracted_pages[p][1] : p \in 1..Len(extracted_pages)}

C30_WhichFilesAreWritten ==
    pc = "done" =>
        IF ~translate
        THEN /\ returned_path = TamilPath
             /\ files[TamilPath] = FullTamilText(extracted_pages)
             /\ \A p \in Paths \ {TamilPath} : files[p] = NoFile
        ELSE /\ returned_path = output_path
             /\ files[TamilPath] = FullTamilText(extracted_pages)
             /\ files[output_path] = final_content
             /\ IF WholeDocumentMode
                THEN doc_result # NoText /\ final_content = doc_result
                ELSE \A p \in 1..Len(extracted_pages) : ~PageFellBack(p)

====
